---- MODULE Spec2Model ----
(***************************************************************************)
(* Model of the ShoruiChecker front end (main window script):              *)
(* the tracked PDF list, the analysis and guideline runs with their event  *)
(* subscriptions, the individual-result parser and the derived button      *)
(* state; and of the folder-watch window script (start and stop of the     *)
(* watch with its poll timer).                                             *)
(*                                                                         *)
(* Text is modelled as a sequence of tokens.  The tokens are the marker    *)
(* literal "## <page emoji> " (MARK), a newline (NL), a space (SP), the     *)
(* literal "---" (DASH3) and opaque words.                                 *)
(***************************************************************************)
EXTENDS Integers, Sequences, FiniteSets, TLC

VARIABLES
    phase,              \* position of the DOMContentLoaded handler
    pdfFiles,           \* let pdfFiles = []
    logUnlisten,        \* let logUnlisten = null  (0 = null, else the run whose log listener it releases)
    listeners,          \* event listeners currently registered with the host: <<run, channel>>
    runs,               \* analyze()/generateGuidelines() invocations that are suspended at an await
    nextRun,            \* number of runs started so far
    adds,               \* drag-drop / file-dialog handlers suspended in loadEmbeddedResult
    startupTimer,       \* setTimeout(() => analyze("individual"), 500) is pending
    btn,                \* the disabled attribute of the eight controls
    customInstruction,  \* value of the custom-instruction input
    clock,              \* wall clock read by new Date(); it advances between two completions
    ev,                 \* the handler that ran last and its inputs (observation only)
    unit,               \* a unit test's call of an exported function: argument and result
    watch               \* the folder-watch window: isWatching, pollInterval, timers, calls

vars == <<phase, pdfFiles, logUnlisten, listeners, runs, nextRun, adds,
          startupTimer, btn, customInstruction, clock, ev, unit, watch>>

\* The variables of the main window.
window == <<phase, pdfFiles, logUnlisten, listeners, runs, nextRun, adds,
            startupTimer, btn, customInstruction, clock, ev>>

----------------------------------------------------------------------------
(* Bounds *)

MaxFiles == 2       \* longest tracked list explored
MaxRuns == 1        \* runs started in one behaviour of Spec
MaxOverlap == 2     \* runs started in one behaviour of SpecRuns
MaxAdds == 1        \* add handlers suspended at the same time
MaxWatchCalls == 4  \* backend calls made by the folder-watch window
MaxPairs == 2       \* sections of a response built in the wire format
MaxLines == 6       \* lines of a response handed to the parser by a unit test

----------------------------------------------------------------------------
(* Text *)

MARK == "## (page) "
NL == "\n"
SP == " "
DASH3 == "---"

IsSpace(c) == c = NL \/ c = SP

RECURSIVE TrimStart(_)
TrimStart(s) ==
    IF s = <<>> THEN s
    ELSE IF IsSpace(Head(s)) THEN TrimStart(Tail(s)) ELSE s

RECURSIVE TrimEnd(_)
TrimEnd(s) ==
    IF s = <<>> THEN s
    ELSE IF IsSpace(s[Len(s)]) THEN TrimEnd(SubSeq(s, 1, Len(s) - 1)) ELSE s

\* String.prototype.trim
Trim(s) == TrimEnd(TrimStart(s))

\* Variant: the marker counts only after a newline.
SepAtAfterNewline(s, i) ==
    IF i + 1 <= Len(s) /\ s[i] = NL /\ s[i + 1] = MARK THEN 2 ELSE 0

\* The separator /(?:^|\n)## (page) / matched at position i of s: its length, or 0.
SepAt(s, i) ==
    IF i = 1 /\ Len(s) >= 1 /\ s[1] = MARK THEN 1
    ELSE IF i + 1 <= Len(s) /\ s[i] = NL /\ s[i + 1] = MARK THEN 2
    ELSE 0

\* result.split(/(?:^|\n)## (page) /): p is the start of the current piece, q the scan position.
RECURSIVE SplitFrom(_, _, _)
SplitFrom(s, p, q) ==
    IF q > Len(s) THEN <<SubSeq(s, p, Len(s))>>
    ELSE IF SepAt(s, q) > 0
         THEN <<SubSeq(s, p, q - 1)>> \o SplitFrom(s, q + SepAt(s, q), q + SepAt(s, q))
         ELSE SplitFrom(s, p, q + 1)

SplitSections(s) == SplitFrom(s, 1, 1)

\* Index of the first newline of s, or 0.
RECURSIVE FirstNL(_, _)
FirstNL(s, i) ==
    IF i > Len(s) THEN 0
    ELSE IF s[i] = NL THEN i ELSE FirstNL(s, i + 1)

\* section.split("\n")[0].trim()
SectionName(section) ==
    LET n == FirstNL(section, 1)
    IN  Trim(IF n = 0 THEN section ELSE SubSeq(section, 1, n - 1))

\* .replace(/^---\n/, "")
StripSeparator(s) ==
    IF Len(s) >= 2 /\ s[1] = DASH3 /\ s[2] = NL THEN SubSeq(s, 3, Len(s)) ELSE s

\* lines.slice(1).join("\n").replace(/^---\n/, "").trim()
SectionContent(section) ==
    LET n == FirstNL(section, 1)
        rest == IF n = 0 THEN <<>> ELSE SubSeq(section, n + 1, Len(section))
    IN  Trim(StripSeparator(rest))

\* The key that names the prototype accessor of an object literal.
ProtoKey == <<"__proto__">>

\* fileResults[fileName] = content on fileResults = {}: an own property is created
\* or overwritten, except for __proto__, whose inherited setter is called instead
\* and ignores a value that is not an object.
AssignKey(m, fileName, content) ==
    IF fileName = ProtoKey THEN m
    ELSE [k \in (DOMAIN m) \cup {fileName} |-> IF k = fileName THEN content ELSE m[k]]

\* Variant: the first section of a name is kept.
ParseLoopFirstWins(sections, i, m) ==
    LET names == {SectionName(sections[j]) : j \in i..Len(sections)} \ {<<>>}
        first(k) == CHOOSE j \in i..Len(sections) :
                       /\ SectionName(sections[j]) = k
                       /\ \A l \in i..Len(sections) : SectionName(sections[l]) = k => j <= l
    IN  [k \in (DOMAIN m) \cup names |->
            IF k \in DOMAIN m THEN m[k] ELSE SectionContent(sections[first(k)])]

\* Variant: every section is recorded under the text of its first line, blank
\* sections and empty names included.
ParseLoopAllSections(sections, i, m) ==
    LET names == {SectionName(sections[j]) : j \in i..Len(sections)}
        last(k) == CHOOSE j \in i..Len(sections) :
                      /\ SectionName(sections[j]) = k
                      /\ \A l \in i..Len(sections) : SectionName(sections[l]) = k => l <= j
    IN  [k \in (DOMAIN m) \cup names |->
            IF k \in names THEN SectionContent(sections[last(k)]) ELSE m[k]]

\* The loop of parseIndividualResults over sections[i..]; m is fileResults so far.
RECURSIVE ParseLoop(_, _, _)
ParseLoop(sections, i, m) ==
    IF i > Len(sections) THEN m
    ELSE LET section == sections[i]
             fileName == SectionName(section)
             content == SectionContent(section)
         IN  IF Trim(section) = <<>> THEN ParseLoop(sections, i + 1, m)
             ELSE IF fileName # <<>>
                  THEN ParseLoop(sections, i + 1, AssignKey(m, fileName, content))
                  ELSE ParseLoop(sections, i + 1, m)

\* parseIndividualResults(result): a function from file names to contents.
parseIndividualResults(result) ==
    ParseLoop(SplitSections(result), 1, [k \in {} |-> <<>>])


----------------------------------------------------------------------------
(* Values *)

\* An absent property of a file object (undefined).
UNDEF == <<"undefined">>
NoTime == 0                     \* analyzedAt absent
NoType == "undefined"           \* documentType absent
CompareLabel == "shougou-kaiseki"   \* the literal documentType of a compare run
NULL == 0                       \* logUnlisten = null

PdfPaths == {"/in/a.pdf", "/in/b.pdf"}
DropPaths == PdfPaths \cup {"/in/memo.txt"}

\* A second file called a.pdf, in another folder.
TwinPath == "/old/a.pdf"

\* path.split(/[\\/]/).pop()
Basename(path) ==
    CASE path = "/in/a.pdf" -> <<"a.pdf">>
      [] path = "/in/b.pdf" -> <<"b.pdf">>
      [] path = TwinPath -> <<"a.pdf">>
      [] OTHER -> <<"memo.txt">>

\* path.toLowerCase().endsWith(".pdf")
IsPdf(path) == path \in PdfPaths \cup {TwinPath}

\* if (x) on a string property: defined and not empty.
Truthy(s) == s # UNDEF /\ s # <<>>

\* Values the collaborators hand in.
HistorySummary == <<"summary">>
HistoryDate == 1
HistoryType == "invoice"
OlderSummary == <<"older">>
OlderType == "receipt"
EmbeddedResult == <<"embedded">>
EmbeddedDate == 2
ErrorTexts == {<<"timeout">>, <<"offline">>}
CustomInstructions == {<<>>, <<"note", SP>>}

\* Responses of analyze_pdfs.
RespAB == <<NL, MARK, "a.pdf", NL, DASH3, NL, "OK", NL, NL, MARK, "b.pdf", NL, DASH3, NL, "NG", NL>>
RespAEmpty == <<MARK, "a.pdf", NL, DASH3, NL, NL>>
Responses == {<<>>, RespAB, RespAEmpty}

\* { name, path, checked } with every other property absent.
NewFile(name, path, checked) ==
    [name |-> name, path |-> path, checked |-> checked,
     result |-> UNDEF, resultError |-> FALSE, analyzedAt |-> NoTime,
     documentType |-> NoType, embedded |-> FALSE, analyzing |-> FALSE,
     compareMode |-> FALSE]

\* pdfFiles.find(f => f.path === path): index of the first match, or 0.
RECURSIVE FindFrom(_, _, _)
FindFrom(list, path, i) ==
    IF i > Len(list) THEN 0
    ELSE IF list[i].path = path THEN i ELSE FindFrom(list, path, i + 1)

FindByPath(list, path) == FindFrom(list, path, 1)

\* pdfFiles.find(f => f.name === name): index of the first match, or 0.
RECURSIVE FindNameFrom(_, _, _)
FindNameFrom(list, name, i) ==
    IF i > Len(list) THEN 0
    ELSE IF list[i].name = name THEN i ELSE FindNameFrom(list, name, i + 1)

FindByName(list, name) == FindNameFrom(list, name, 1)

\* pdfFiles.filter(f => f.checked), kept as the paths of the filtered objects.
RECURSIVE CheckedFrom(_, _)
CheckedFrom(list, i) ==
    IF i > Len(list) THEN <<>>
    ELSE (IF list[i].checked THEN <<list[i].path>> ELSE <<>>) \o CheckedFrom(list, i + 1)

\* Variant: every tracked file is taken, checked or not.
getCheckedFilesAll(list) == [i \in 1..Len(list) |-> list[i].path]

getCheckedFiles(list) == CheckedFrom(list, 1)

\* pdfFiles.filter(f => f.checked && f.result && !f.resultError)
RECURSIVE WithResultsFrom(_, _)
WithResultsFrom(list, i) ==
    IF i > Len(list) THEN <<>>
    ELSE (IF list[i].checked /\ Truthy(list[i].result) /\ ~list[i].resultError
          THEN <<list[i].path>> ELSE <<>>) \o WithResultsFrom(list, i + 1)

FilesWithResults(list) == WithResultsFrom(list, 1)

----------------------------------------------------------------------------
(* Derived button state *)

\* Variant: compare does not look at the results of the selection.
updateButtonsStateCompareAnyway(hasFiles, hasChecked, hasResultsSelected, busy, hasCustomInstruction) ==
    [analyzeDisabled |-> busy \/ ~hasChecked,
     compareDisabled |-> busy \/ ~hasChecked,
     clearDisabled |-> busy \/ ~hasFiles,
     selectAllDisabled |-> ~hasFiles,
     selectNoneDisabled |-> ~hasFiles,
     guidelinesDisabled |-> busy \/ ~hasResultsSelected,
     customInstructionDisabled |-> busy \/ ~hasChecked,
     copyInstructionDisabled |-> busy \/ ~hasResultsSelected \/ ~hasCustomInstruction]

updateButtonsState(hasFiles, hasChecked, hasResultsSelected, busy, hasCustomInstruction) ==
    [analyzeDisabled |-> busy \/ ~hasChecked,
     compareDisabled |-> busy \/ ~hasChecked \/ hasResultsSelected,
     clearDisabled |-> busy \/ ~hasFiles,
     selectAllDisabled |-> ~hasFiles,
     selectNoneDisabled |-> ~hasFiles,
     guidelinesDisabled |-> busy \/ ~hasResultsSelected,
     customInstructionDisabled |-> busy \/ ~hasChecked,
     copyInstructionDisabled |-> busy \/ ~hasResultsSelected \/ ~hasCustomInstruction]

Busy(list) == \E i \in 1..Len(list) : list[i].analyzing

\* updateButtons(): the disabled attributes computed from the list and the input.
updateButtons(list, instruction) ==
    updateButtonsState(Len(list) > 0,
                       Len(getCheckedFiles(list)) > 0,
                       Len(FilesWithResults(list)) > 0,
                       Busy(list),
                       Len(Trim(instruction)) > 0)

\* The disabled attributes the page starts with (index.html).
InitialButtons == updateButtonsState(FALSE, FALSE, FALSE, FALSE, FALSE)


----------------------------------------------------------------------------
(* Applying a run's outcome to the list *)

\* applyCompareResult: checkedFiles.forEach from index i on.
RECURSIVE applyCompareFrom(_, _, _, _, _)
applyCompareFrom(list, checkedFiles, i, result, timestamp) ==
    IF i > Len(checkedFiles) THEN list
    ELSE LET k == FindByPath(list, checkedFiles[i])
             next == IF k = 0 THEN list
                     ELSE [list EXCEPT ![k].result = result,
                                       ![k].resultError = FALSE,
                                       ![k].compareMode = TRUE,
                                       ![k].analyzedAt = timestamp,
                                       ![k].documentType = CompareLabel]
         IN  applyCompareFrom(next, checkedFiles, i + 1, result, timestamp)

\* Variant: an empty response is taken for no response and nothing is recorded.
applyCompareResultIfText(list, checkedFiles, result, timestamp) ==
    IF result = <<>> THEN list
    ELSE applyCompareFrom(list, checkedFiles, 1, result, timestamp)

applyCompareResult(list, checkedFiles, result, timestamp) ==
    applyCompareFrom(list, checkedFiles, 1, result, timestamp)

\* applyIndividualResults: checkedFiles.forEach from index i on.
RECURSIVE applyIndividualFrom(_, _, _, _, _)
applyIndividualFrom(list, checkedFiles, i, fileResults, timestamp) ==
    IF i > Len(checkedFiles) THEN list
    ELSE LET k == FindByPath(list, checkedFiles[i])
             next == IF k # 0 /\ list[k].name \in DOMAIN fileResults
                        /\ fileResults[list[k].name] # <<>>
                     THEN [list EXCEPT ![k].result = fileResults[list[k].name],
                                       ![k].resultError = FALSE,
                                       ![k].analyzedAt = timestamp,
                                       ![k].embedded = TRUE]
                     ELSE list
         IN  applyIndividualFrom(next, checkedFiles, i + 1, fileResults, timestamp)

\* Variant: every tracked file named by a section gets the section.
applyIndividualResultsByName(list, checkedFiles, result, timestamp) ==
    LET fileResults == parseIndividualResults(result)
    IN  [i \in 1..Len(list) |->
            IF list[i].name \in DOMAIN fileResults /\ fileResults[list[i].name] # <<>>
            THEN [list[i] EXCEPT !.result = fileResults[list[i].name],
                                 !.resultError = FALSE,
                                 !.analyzedAt = timestamp,
                                 !.embedded = TRUE]
            ELSE list[i]]

\* Variant: a checked file without a section is marked as failed.
applyIndividualResultsMarkMissing(list, checkedFiles, result, timestamp) ==
    LET fileResults == parseIndividualResults(result)
        applied == applyIndividualFrom(list, checkedFiles, 1, fileResults, timestamp)
    IN  [i \in 1..Len(applied) |->
            IF /\ \E j \in 1..Len(checkedFiles) : checkedFiles[j] = applied[i].path
               /\ applied[i].name \notin DOMAIN fileResults
            THEN [applied[i] EXCEPT !.result = <<"no result">>, !.resultError = TRUE]
            ELSE applied[i]]

\* Variant: a section naming no tracked file fails the whole response.
applyIndividualResultsStrict(list, checkedFiles, result, timestamp) ==
    LET fileResults == parseIndividualResults(result)
    IN  IF \E name \in DOMAIN fileResults : FindByName(list, name) = 0
        THEN [i \in 1..Len(list) |->
                IF \E j \in 1..Len(checkedFiles) : checkedFiles[j] = list[i].path
                THEN [list[i] EXCEPT !.result = <<"unknown file">>, !.resultError = TRUE]
                ELSE list[i]]
        ELSE applyIndividualFrom(list, checkedFiles, 1, fileResults, timestamp)

applyIndividualResults(list, checkedFiles, result, timestamp) ==
    applyIndividualFrom(list, checkedFiles, 1, parseIndividualResults(result), timestamp)

\* applyErrorResult: checkedFiles.forEach from index i on.
RECURSIVE applyErrorFrom(_, _, _, _)
applyErrorFrom(list, checkedFiles, i, error) ==
    IF i > Len(checkedFiles) THEN list
    ELSE LET k == FindByPath(list, checkedFiles[i])
             next == IF k = 0 THEN list
                     ELSE [list EXCEPT ![k].result = error, ![k].resultError = TRUE]
         IN  applyErrorFrom(next, checkedFiles, i + 1, error)

\* Variant: a file of the checked set that is no longer tracked is tracked again.
applyErrorResultReinserts(list, checkedFiles, error) ==
    LET gone == SelectSeq(checkedFiles, LAMBDA q : FindByPath(list, q) = 0)
    IN  applyErrorFrom(list, checkedFiles, 1, error) \o
        [k \in 1..Len(gone) |->
            [NewFile(Basename(gone[k]), gone[k], TRUE)
                EXCEPT !.result = error, !.resultError = TRUE]]

\* Variant: a record that already holds an error keeps it.
applyErrorResultKeepsFirst(list, checkedFiles, error) ==
    [i \in 1..Len(list) |->
        IF /\ \E j \in 1..Len(checkedFiles) : checkedFiles[j] = list[i].path
           /\ ~list[i].resultError
        THEN [list[i] EXCEPT !.result = error, !.resultError = TRUE]
        ELSE list[i]]

\* Variant: the error text is stored without the error flag.
applyErrorResultNoFlag(list, checkedFiles, error) ==
    [i \in 1..Len(list) |->
        IF \E j \in 1..Len(checkedFiles) : checkedFiles[j] = list[i].path
        THEN [list[i] EXCEPT !.result = error]
        ELSE list[i]]

applyErrorResult(list, checkedFiles, error) == applyErrorFrom(list, checkedFiles, 1, error)

----------------------------------------------------------------------------
(* Observation of the last handler *)

Event(kind, run, mode, paths, text) ==
    [kind |-> kind, run |-> run, mode |-> mode, paths |-> paths, text |-> text,
     history |-> <<>>]

Plain(kind) == Event(kind, 0, "", <<>>, <<>>)

\* A handler whose inputs no property reads.
Quiet == Plain("other")

----------------------------------------------------------------------------
(* Start-up: the DOMContentLoaded handler *)

ClockStart == 3

\* The folder-watch window before its DOMContentLoaded handler has run:
\* let isWatching = false; let pollInterval = null; no timer, no call in flight.
WatchInit ==
    [loaded |-> FALSE, isWatching |-> FALSE, pollInterval |-> NULL, timers |-> {},
     calls |-> {}, nextCall |-> 0, startDisabled |-> FALSE, stopDisabled |-> FALSE,
     last |-> "none"]

\* No unit test is running in the window.
NoUnit == [fn |-> "none"]

Init ==
    /\ phase = "settings"
    /\ pdfFiles = <<>>
    /\ logUnlisten = NULL
    /\ listeners = {}
    /\ runs = {}
    /\ nextRun = 0
    /\ adds = <<>>
    /\ startupTimer = FALSE
    /\ btn = InitialButtons
    /\ customInstruction = <<>>
    /\ clock = ClockStart
    /\ ev = Plain("init")
    /\ watch = WatchInit
    /\ unit = NoUnit

\* An entry of get_all_history for file p, and an older entry for the same file.
HistoryEntry(p) ==
    [file_name |-> Basename(p), file_path |-> p, summary |-> HistorySummary,
     analyzed_at |-> HistoryDate, document_type |-> HistoryType]

OlderEntry(p) ==
    [HistoryEntry(p) EXCEPT !.summary = OlderSummary, !.document_type = OlderType]

\* The answers of get_all_history: lists of entries, one file possibly twice.
Histories ==
    {<<>>} \cup {<<HistoryEntry(p)>> : p \in PdfPaths}
           \cup {<<HistoryEntry(p), HistoryEntry(q)>> : p, q \in PdfPaths}
           \cup {<<HistoryEntry(p), OlderEntry(p)>> : p \in PdfPaths}

\* The record pushed for a history entry.
HistoryFile(entry) ==
    [NewFile(entry.file_name, entry.file_path, FALSE)
        EXCEPT !.result = entry.summary,
               !.resultError = FALSE,
               !.analyzedAt = entry.analyzed_at,
               !.documentType = entry.document_type]

\* loadHistoryToFileList: the for loop from entry i on.
RECURSIVE loadHistoryFrom(_, _, _)
loadHistoryFrom(list, history, i) ==
    IF i > Len(history) THEN list
    ELSE IF FindByPath(list, history[i].file_path) # 0
         THEN loadHistoryFrom(list, history, i + 1)
    ELSE loadHistoryFrom(Append(list, HistoryFile(history[i])), history, i + 1)

\* Variant: an entry is skipped only if its file was tracked before the load.
loadHistoryToFileListOncePerEntry(list, history) ==
    LET fresh == SelectSeq(history, LAMBDA e : FindByPath(list, e.file_path) = 0)
    IN  list \o [k \in 1..Len(fresh) |-> HistoryFile(fresh[k])]

loadHistoryToFileList(list, history) == loadHistoryFrom(list, history, 1)

\* The observation of initSettings: the history it was given.
HistoryEvent(history) == [Plain("history") EXCEPT !.history = history]

\* initSettings resolves with the history (an empty one also stands for a failed load).
InitSettings(history) ==
    /\ phase = "settings"
    /\ Len(history) <= MaxFiles
    /\ phase' = "startup"
    /\ IF Len(history) > 0
       THEN /\ pdfFiles' = loadHistoryToFileList(pdfFiles, history)
            /\ btn' = updateButtons(pdfFiles', customInstruction)
       ELSE UNCHANGED <<pdfFiles, btn>>
    /\ UNCHANGED <<unit, watch>>
    /\ ev' = HistoryEvent(history)
    /\ UNCHANGED <<logUnlisten, listeners, runs, nextRun, adds, startupTimer,
                   customInstruction, clock>>

\* initStartupFile resolves: startupFile is a path or "" (none).
InitStartupFile(startupFile) ==
    /\ phase = "startup"
    /\ phase' = "ready"
    /\ IF startupFile # ""
       THEN /\ Len(pdfFiles) < MaxFiles
            /\ pdfFiles' = Append(pdfFiles, NewFile(Basename(startupFile), startupFile, TRUE))
            /\ btn' = updateButtons(pdfFiles', customInstruction)
            /\ startupTimer' = TRUE
       ELSE UNCHANGED <<pdfFiles, btn, startupTimer>>
    /\ UNCHANGED <<unit, watch>>
    /\ ev' = Quiet
    /\ UNCHANGED <<logUnlisten, listeners, runs, nextRun, adds, customInstruction, clock>>

\* The page reacts to the user and to host events once initSettings has returned.
Live == phase # "settings"

----------------------------------------------------------------------------
(* List operations *)

\* Variant: unchecking a file forgets its result.
toggleFileForgetsResult(i) ==
    /\ Live
    /\ i \in 1..Len(pdfFiles)
    /\ pdfFiles' = IF pdfFiles[i].checked
                   THEN [pdfFiles EXCEPT ![i].checked = FALSE, ![i].result = UNDEF]
                   ELSE [pdfFiles EXCEPT ![i].checked = TRUE]
    /\ btn' = updateButtons(pdfFiles', customInstruction)
    /\ UNCHANGED <<unit, watch>>
    /\ ev' = Plain("toggleFile")
    /\ UNCHANGED <<phase, logUnlisten, listeners, runs, nextRun, adds, startupTimer,
                   customInstruction, clock>>

toggleFile(i) ==
    /\ Live
    /\ i \in 1..Len(pdfFiles)
    /\ pdfFiles' = [pdfFiles EXCEPT ![i].checked = ~pdfFiles[i].checked]
    /\ btn' = updateButtons(pdfFiles', customInstruction)
    /\ UNCHANGED <<unit, watch>>
    /\ ev' = Plain("toggleFile")
    /\ UNCHANGED <<phase, logUnlisten, listeners, runs, nextRun, adds, startupTimer,
                   customInstruction, clock>>

selectAll ==
    /\ Live
    /\ ~btn.selectAllDisabled
    /\ pdfFiles' = [i \in 1..Len(pdfFiles) |-> [pdfFiles[i] EXCEPT !.checked = TRUE]]
    /\ btn' = updateButtons(pdfFiles', customInstruction)
    /\ UNCHANGED <<unit, watch>>
    /\ ev' = Plain("selectAll")
    /\ UNCHANGED <<phase, logUnlisten, listeners, runs, nextRun, adds, startupTimer,
                   customInstruction, clock>>

selectNone ==
    /\ Live
    /\ ~btn.selectNoneDisabled
    /\ pdfFiles' = [i \in 1..Len(pdfFiles) |-> [pdfFiles[i] EXCEPT !.checked = FALSE]]
    /\ btn' = updateButtons(pdfFiles', customInstruction)
    /\ UNCHANGED <<unit, watch>>
    /\ ev' = Plain("selectNone")
    /\ UNCHANGED <<phase, logUnlisten, listeners, runs, nextRun, adds, startupTimer,
                   customInstruction, clock>>

\* pdfFiles.splice(index, 1)
Splice(list, i) == SubSeq(list, 1, i - 1) \o SubSeq(list, i + 1, Len(list))

removeFile(i) ==
    /\ Live
    /\ i \in 1..Len(pdfFiles)
    /\ pdfFiles' = Splice(pdfFiles, i)
    /\ btn' = updateButtons(pdfFiles', customInstruction)
    /\ UNCHANGED <<unit, watch>>
    /\ ev' = Quiet
    /\ UNCHANGED <<phase, logUnlisten, listeners, runs, nextRun, adds, startupTimer,
                   customInstruction, clock>>

clearFiles ==
    /\ Live
    /\ ~btn.clearDisabled
    /\ pdfFiles' = <<>>
    /\ btn' = updateButtons(pdfFiles', customInstruction)
    /\ UNCHANGED <<unit, watch>>
    /\ ev' = Plain("clearFiles")
    /\ UNCHANGED <<phase, logUnlisten, listeners, runs, nextRun, adds, startupTimer,
                   customInstruction, clock>>

\* The input event of the custom-instruction field.
InputInstruction(value) ==
    /\ Live
    /\ ~btn.customInstructionDisabled
    /\ value # customInstruction
    /\ customInstruction' = value
    /\ btn' = updateButtons(pdfFiles, customInstruction')
    /\ UNCHANGED <<unit, watch>>
    /\ ev' = Quiet
    /\ UNCHANGED <<phase, pdfFiles, logUnlisten, listeners, runs, nextRun, adds,
                   startupTimer, clock>>

\* The pdf-detected listener.
PdfDetected(path) ==
    /\ Live
    /\ FindByPath(pdfFiles, path) = 0
    /\ Len(pdfFiles) < MaxFiles
    /\ pdfFiles' = Append(pdfFiles, NewFile(Basename(path), path, TRUE))
    /\ btn' = updateButtons(pdfFiles', customInstruction)
    /\ UNCHANGED <<unit, watch>>
    /\ ev' = Quiet
    /\ UNCHANGED <<phase, logUnlisten, listeners, runs, nextRun, adds, startupTimer,
                   customInstruction, clock>>


----------------------------------------------------------------------------
(* Adding files by drag-drop and by the file dialog *)

DropPayloads == {<<p>> : p \in DropPaths} \cup {<<p, q>> : p, q \in DropPaths}
DialogPayloads == {<<p>> : p \in PdfPaths} \cup {<<p, q>> : p, q \in PdfPaths}

\* The for loop over paths from index i on, up to its first await: the index of
\* the first path that passes the tests of the loop body, or 0 when the loop ends.
RECURSIVE NextToAdd(_, _, _, _)
NextToAdd(list, paths, i, pdfOnly) ==
    IF i > Len(paths) THEN 0
    ELSE IF (~pdfOnly \/ IsPdf(paths[i])) /\ FindByPath(list, paths[i]) = 0 THEN i
    ELSE NextToAdd(list, paths, i + 1, pdfOnly)

\* A handler suspended in await loadEmbeddedResult(file).
AddTask(paths, i, pdfOnly) ==
    [file |-> NewFile(Basename(paths[i]), paths[i], TRUE),
     rest |-> SubSeq(paths, i + 1, Len(paths)),
     pdfOnly |-> pdfOnly]

\* The handler runs from its entry to its first await, or to its end.
BeginAdd(paths, pdfOnly) ==
    LET i == NextToAdd(pdfFiles, paths, 1, pdfOnly)
    IN  /\ Live
        /\ IF i = 0
           THEN /\ btn' = updateButtons(pdfFiles, customInstruction)
                /\ UNCHANGED adds
           ELSE /\ Len(adds) < MaxAdds
                /\ adds' = Append(adds, AddTask(paths, i, pdfOnly))
                /\ UNCHANGED btn
        /\ UNCHANGED <<unit, watch>>
        /\ ev' = Quiet
        /\ UNCHANGED <<phase, pdfFiles, logUnlisten, listeners, runs, nextRun,
                       startupTimer, customInstruction, clock>>

\* The tauri://drag-drop listener.
DragDrop(paths) == BeginAdd(paths, TRUE)

\* openFileDialog with a selection.
openFileDialog(paths) == BeginAdd(paths, FALSE)

\* Variant: a failed read is recorded on the file as an error.
loadEmbeddedResultSurfacesFailure(file, outcome) ==
    IF outcome = "some"
    THEN [file EXCEPT !.result = EmbeddedResult, !.resultError = FALSE,
                      !.analyzedAt = EmbeddedDate, !.embedded = TRUE]
    ELSE IF outcome = "fail"
    THEN [file EXCEPT !.result = <<"read failed">>, !.resultError = TRUE]
    ELSE file

\* loadEmbeddedResult(file) once read_pdf_result has answered.
loadEmbeddedResult(file, outcome) ==
    IF outcome = "some"
    THEN [file EXCEPT !.result = EmbeddedResult, !.resultError = FALSE,
                      !.analyzedAt = EmbeddedDate, !.embedded = TRUE]
    ELSE file

\* read_pdf_result answers task t: the file is pushed and the loop goes on.
EmbeddedRead(t, outcome) ==
    /\ t \in 1..Len(adds)
    /\ Len(pdfFiles) < MaxFiles
    /\ pdfFiles' = Append(pdfFiles, loadEmbeddedResult(adds[t].file, outcome))
    /\ LET i == NextToAdd(pdfFiles', adds[t].rest, 1, adds[t].pdfOnly)
       IN  IF i = 0
           THEN /\ adds' = Splice(adds, t)
                /\ btn' = updateButtons(pdfFiles', customInstruction)
           ELSE /\ adds' = [adds EXCEPT ![t] = AddTask(adds[t].rest, i, adds[t].pdfOnly)]
                /\ UNCHANGED btn
    /\ UNCHANGED <<unit, watch>>
    /\ ev' = Event("embedded", 0, outcome, <<adds[t].file.path>>, <<>>)
    /\ UNCHANGED <<phase, logUnlisten, listeners, runs, nextRun, startupTimer,
                   customInstruction, clock>>

----------------------------------------------------------------------------
(* Runs *)

LOG == "log"
PROGRESS == "analysis-progress"

\* Calling the function logUnlisten holds: its listener is gone from the host.
Unlisten(ls, handle) == IF handle = NULL THEN ls ELSE ls \ {<<handle, LOG>>}

Run(id, kind, checkedFiles) ==
    [id |-> id, kind |-> kind, pc |-> "listenLog", checkedFiles |-> checkedFiles,
     alone |-> runs = {}]

\* A run already in flight is no longer alone once another one starts.
Joined(rs) == {[r EXCEPT !.alone = FALSE] : r \in rs}

\* analyze(mode) from its entry to await listen("log").
AnalyzeEnter(mode) ==
    /\ Live
    /\ Len(getCheckedFiles(pdfFiles)) > 0
    /\ btn' = [btn EXCEPT !.analyzeDisabled = TRUE, !.compareDisabled = TRUE]
    /\ listeners' = Unlisten(listeners, logUnlisten)
    /\ nextRun' = nextRun + 1
    /\ runs' = Joined(runs) \cup
               {Run(nextRun', mode, getCheckedFiles(pdfFiles))}
    /\ UNCHANGED <<unit, watch>>
    /\ ev' = Event("enter", nextRun', mode, <<>>, <<>>)
    /\ UNCHANGED <<phase, pdfFiles, logUnlisten, adds, customInstruction, clock>>

\* Click on analyze-btn.
ClickAnalyze ==
    /\ ~btn.analyzeDisabled
    /\ AnalyzeEnter("individual")
    /\ UNCHANGED startupTimer

\* Click on compare-btn.
ClickCompare ==
    /\ ~btn.compareDisabled
    /\ AnalyzeEnter("compare")
    /\ UNCHANGED startupTimer

\* The timer set by initStartupFile fires.
StartupAnalyze ==
    /\ startupTimer
    /\ startupTimer' = FALSE
    /\ IF Len(getCheckedFiles(pdfFiles)) > 0
       THEN AnalyzeEnter("individual")
       ELSE /\ ev' = Plain("empty")
            /\ UNCHANGED <<unit, watch>>
            /\ UNCHANGED <<phase, pdfFiles, logUnlisten, listeners, runs, nextRun, adds,
                           btn, customInstruction, clock>>

\* Click on guidelines-btn: generateGuidelines from its entry to await listen("log").
\* With no file that is checked and has a result, it alerts and returns.
ClickGuidelines ==
    /\ Live
    /\ ~btn.guidelinesDisabled
    /\ IF Len(FilesWithResults(pdfFiles)) = 0
       THEN /\ ev' = Plain("warning")
            /\ UNCHANGED <<btn, listeners, nextRun, runs>>
       ELSE /\ btn' = [btn EXCEPT !.guidelinesDisabled = TRUE]
            /\ listeners' = Unlisten(listeners, logUnlisten)
            /\ nextRun' = nextRun + 1
            /\ runs' = Joined(runs) \cup
                       {Run(nextRun', "guidelines", FilesWithResults(pdfFiles))}
            /\ ev' = Event("enter", nextRun', "guidelines", <<>>, <<>>)
    /\ UNCHANGED <<unit, watch>>
    /\ UNCHANGED <<phase, pdfFiles, logUnlisten, adds, startupTimer, customInstruction, clock>>

\* listen("log") resolves for run r: the handle is stored and the run goes on to
\* its next await (listen("analysis-progress"), or the guideline request).
LogListened(r) ==
    /\ r \in runs
    /\ r.pc = "listenLog"
    /\ logUnlisten' = r.id
    /\ listeners' = listeners \cup {<<r.id, LOG>>}
    /\ runs' = (runs \ {r}) \cup
               {IF r.kind = "guidelines"
                THEN [r EXCEPT !.pc = "invoke"]
                ELSE [r EXCEPT !.pc = "listenProgress"]}
    /\ UNCHANGED <<unit, watch>>
    /\ ev' = IF r.kind = "guidelines"
             THEN Event("request", r.id, r.kind, r.checkedFiles, Trim(customInstruction))
             ELSE Quiet
    /\ UNCHANGED <<phase, pdfFiles, nextRun, adds, startupTimer, btn, customInstruction, clock>>

\* listen("log") rejects with e for run r: the await throws before the try block,
\* so the handler ends there and nothing after the await is executed.
LogListenFailed(r, e) ==
    /\ r \in runs
    /\ r.pc = "listenLog"
    /\ runs' = runs \ {r}
    /\ ev' = Event("logFailed", r.id, r.kind, r.checkedFiles, e)
    /\ UNCHANGED <<phase, pdfFiles, logUnlisten, listeners, nextRun, adds, startupTimer,
                   btn, customInstruction, clock, unit, watch>>

\* listen("analysis-progress") rejects with e for run r, likewise before the try block.
ProgressListenFailed(r, e) ==
    /\ r \in runs
    /\ r.pc = "listenProgress"
    /\ runs' = runs \ {r}
    /\ ev' = Event("progressFailed", r.id, r.kind, r.checkedFiles, e)
    /\ UNCHANGED <<phase, pdfFiles, logUnlisten, listeners, nextRun, adds, startupTimer,
                   btn, customInstruction, clock, unit, watch>>

\* Variant: the progress listener is registered but the request is never made.
ProgressListenedWaits(r) ==
    /\ r \in runs
    /\ r.pc = "listenProgress"
    /\ listeners' = listeners \cup {<<r.id, PROGRESS>>}
    /\ ev' = Quiet
    /\ UNCHANGED <<phase, pdfFiles, logUnlisten, runs, nextRun, adds, startupTimer, btn,
                   customInstruction, clock, unit, watch>>

\* listen("analysis-progress") resolves for run r and analyze_pdfs is invoked with
\* { paths, mode, customInstruction }.
ProgressListened(r) ==
    /\ r \in runs
    /\ r.pc = "listenProgress"
    /\ listeners' = listeners \cup {<<r.id, PROGRESS>>}
    /\ runs' = (runs \ {r}) \cup
               {[r EXCEPT !.pc = "invoke"]}
    /\ UNCHANGED <<unit, watch>>
    /\ ev' = Event("request", r.id, r.kind, r.checkedFiles, Trim(customInstruction))
    /\ UNCHANGED <<phase, pdfFiles, logUnlisten, nextRun, adds, startupTimer, btn,
                   customInstruction, clock>>

\* Variant: finally releases the log listener only.
AnalyzeFinallyKeepsProgress(ls, handle, id) == Unlisten(ls, handle)

\* The finally block of analyze: the listeners left once it has run.
AnalyzeFinally(ls, handle, id) == Unlisten(ls \ {<<id, PROGRESS>>}, handle)

\* The finally block of generateGuidelines.
GuidelinesFinally(ls, handle) == Unlisten(ls, handle)

\* analyze_pdfs resolves with result: the try block after the await, then finally.
AnalyzeResolved(r, result) ==
    /\ r \in runs
    /\ r.pc = "invoke"
    /\ r.kind # "guidelines"
    /\ pdfFiles' = IF r.kind = "compare"
                   THEN applyCompareResult(pdfFiles, r.checkedFiles, result, clock)
                   ELSE applyIndividualResults(pdfFiles, r.checkedFiles, result, clock)
    /\ btn' = updateButtons(pdfFiles', customInstruction)
    /\ listeners' = AnalyzeFinally(listeners, logUnlisten, r.id)
    /\ logUnlisten' = NULL
    /\ runs' = runs \ {r}
    /\ clock' = clock + 1
    /\ UNCHANGED <<unit, watch>>
    /\ ev' = Event("resolved", r.id, r.kind, r.checkedFiles, result)
    /\ UNCHANGED <<phase, nextRun, adds, startupTimer, customInstruction>>

\* analyze_pdfs rejects with e: the catch block, then finally.
AnalyzeRejected(r, e) ==
    /\ r \in runs
    /\ r.pc = "invoke"
    /\ r.kind # "guidelines"
    /\ pdfFiles' = applyErrorResult(pdfFiles, r.checkedFiles, e)
    /\ btn' = updateButtons(pdfFiles', customInstruction)
    /\ listeners' = AnalyzeFinally(listeners, logUnlisten, r.id)
    /\ logUnlisten' = NULL
    /\ runs' = runs \ {r}
    /\ UNCHANGED <<unit, watch>>
    /\ ev' = Event("rejected", r.id, r.kind, r.checkedFiles, e)
    /\ UNCHANGED <<phase, nextRun, adds, startupTimer, customInstruction, clock>>

\* Variant: a failed guideline request is recorded on the files it was made for.
GuidelinesSettledRecordsError(r, ok) ==
    /\ r \in runs
    /\ r.pc = "invoke"
    /\ r.kind = "guidelines"
    /\ pdfFiles' = IF ok THEN pdfFiles
                   ELSE applyErrorResult(pdfFiles, r.checkedFiles, <<"timeout">>)
    /\ btn' = updateButtons(pdfFiles', customInstruction)
    /\ listeners' = GuidelinesFinally(listeners, logUnlisten)
    /\ logUnlisten' = NULL
    /\ runs' = runs \ {r}
    /\ ev' = Event(IF ok THEN "resolved" ELSE "rejected", r.id, r.kind, r.checkedFiles, <<>>)
    /\ UNCHANGED <<phase, nextRun, adds, startupTimer, customInstruction, clock, unit, watch>>

\* generate_guidelines resolves or rejects: the result pane is filled, then finally.
GuidelinesSettled(r, ok) ==
    /\ r \in runs
    /\ r.pc = "invoke"
    /\ r.kind = "guidelines"
    /\ btn' = updateButtons(pdfFiles, customInstruction)
    /\ listeners' = GuidelinesFinally(listeners, logUnlisten)
    /\ logUnlisten' = NULL
    /\ runs' = runs \ {r}
    /\ UNCHANGED <<unit, watch>>
    /\ ev' = Event(IF ok THEN "resolved" ELSE "rejected", r.id, r.kind, r.checkedFiles, <<>>)
    /\ UNCHANGED <<phase, pdfFiles, nextRun, adds, startupTimer, customInstruction, clock>>

----------------------------------------------------------------------------
(* Events of the backend while a request is being served *)

Names == {Basename(p) : p \in PdfPaths}

Serving(kinds) == \E r \in runs : r.pc = "invoke" /\ r.kind \in kinds

\* Variant: every notification marks the file as being analyzed.
OnProgressStarted(list, fileName, completed) ==
    LET k == FindByName(list, fileName)
    IN  IF k = 0 THEN list ELSE [list EXCEPT ![k].analyzing = TRUE]

\* The analysis-progress listener body.
\* Variant: every record with the name is marked.
OnProgressAllNamed(list, fileName, completed) ==
    [i \in 1..Len(list) |->
        IF list[i].name = fileName THEN [list[i] EXCEPT !.analyzing = ~completed]
        ELSE list[i]]

OnProgress(list, fileName, completed) ==
    LET k == FindByName(list, fileName)
    IN  IF k = 0 THEN list ELSE [list EXCEPT ![k].analyzing = ~completed]

\* An analysis-progress event is delivered to the registered progress listeners.
ProgressEvent(fileName, completed) ==
    /\ Serving({"individual", "compare"})
    /\ \E l \in listeners : l[2] = PROGRESS
    /\ pdfFiles' = OnProgress(pdfFiles, fileName, completed)
    /\ btn' = IF FindByName(pdfFiles, fileName) = 0 THEN btn
              ELSE updateButtons(pdfFiles', customInstruction)
    /\ UNCHANGED <<unit, watch>>
    /\ ev' = Event("progress", 0, IF completed THEN "completed" ELSE "started", <<>>, fileName)
    /\ UNCHANGED <<phase, logUnlisten, listeners, runs, nextRun, adds, startupTimer,
                   customInstruction, clock>>

\* Variant: the log listener refreshes the buttons as well.
LogEventRefreshes ==
    /\ Serving({"individual", "compare", "guidelines"})
    /\ \E l \in listeners : l[2] = LOG
    /\ btn' = updateButtons(pdfFiles, customInstruction)
    /\ ev' = Plain("log")
    /\ UNCHANGED <<phase, pdfFiles, logUnlisten, listeners, runs, nextRun, adds,
                   startupTimer, customInstruction, clock, unit, watch>>

\* A log event is delivered to the registered log listeners (appendLog only).
LogEvent ==
    /\ Serving({"individual", "compare", "guidelines"})
    /\ \E l \in listeners : l[2] = LOG
    /\ UNCHANGED <<unit, watch>>
    /\ ev' = Plain("log")
    /\ UNCHANGED <<phase, pdfFiles, logUnlisten, listeners, runs, nextRun, adds,
                   startupTimer, btn, customInstruction, clock>>

----------------------------------------------------------------------------

\* The main window with files arriving from the history, the start-up file and
\* folder detection, and the runs the user and the start-up timer begin.
Next ==
    \/ \E h \in Histories : InitSettings(h)
    \/ \E f \in PdfPaths \cup {""} : InitStartupFile(f)
    \/ \E i \in 1..MaxFiles : toggleFile(i)
    \/ selectAll
    \/ selectNone
    \/ \E i \in 1..MaxFiles : removeFile(i)
    \/ clearFiles
    \/ \E v \in CustomInstructions : InputInstruction(v)
    \/ \E p \in PdfPaths : PdfDetected(p)
    \/ nextRun < MaxRuns /\ ClickAnalyze
    \/ nextRun < MaxRuns /\ ClickCompare
    \/ nextRun < MaxRuns /\ StartupAnalyze
    \/ nextRun < MaxRuns /\ ClickGuidelines
    \/ \E r \in runs : LogListened(r)
    \/ \E r \in runs : ProgressListened(r)
    \/ \E r \in runs, res \in Responses : AnalyzeResolved(r, res)
    \/ \E r \in runs, e \in ErrorTexts : AnalyzeRejected(r, e)
    \/ \E r \in runs, ok \in BOOLEAN : GuidelinesSettled(r, ok)
    \/ \E n \in Names, c \in BOOLEAN : ProgressEvent(n, c)
    \/ LogEvent

Spec == Init /\ [][Next]_vars

\* Runs begun from the three buttons only (no start-up file), on one file that is
\* either in the history or detected, with the handlers that re-derive the buttons.
RunPath == "/in/a.pdf"

NextRuns ==
    \/ \E h \in {<<>>, <<HistoryEntry(RunPath)>>} : InitSettings(h)
    \/ InitStartupFile("")
    \/ \E i \in 1..MaxFiles : toggleFile(i)
    \/ \E v \in CustomInstructions : InputInstruction(v)
    \/ PdfDetected(RunPath)
    \/ nextRun < MaxOverlap /\ ClickAnalyze
    \/ nextRun < MaxOverlap /\ ClickCompare
    \/ nextRun < MaxOverlap /\ ClickGuidelines
    \/ \E r \in runs : LogListened(r)
    \/ \E r \in runs : ProgressListened(r)
    \/ \E r \in runs : AnalyzeResolved(r, RespAB)
    \/ \E r \in runs, e \in ErrorTexts : AnalyzeRejected(r, e)
    \/ \E r \in runs, ok \in BOOLEAN : GuidelinesSettled(r, ok)
    \/ \E c \in BOOLEAN : ProgressEvent(Basename(RunPath), c)
    \/ LogEvent

SpecRuns == Init /\ [][NextRuns]_vars

\* The same, with no await pending for ever: listen() resolves, and no request
\* stays unanswered.  A pending request can be rejected at any moment and is
\* pending no longer once it is resolved, so fairness of the rejection alone says
\* that it is resolved or rejected in the end.
SpecRunsFair ==
    /\ SpecRuns
    /\ WF_vars(\E r \in runs : LogListened(r))
    /\ WF_vars(\E r \in runs : ProgressListened(r))
    /\ WF_vars(\E r \in runs, e \in ErrorTexts : AnalyzeRejected(r, e))
    /\ WF_vars(\E r \in runs : GuidelinesSettled(r, FALSE))

\* The file list alone, with every way a file is added to it and no run.
NextStore ==
    \/ \E h \in Histories : InitSettings(h)
    \/ \E f \in PdfPaths \cup {""} : InitStartupFile(f)
    \/ \E i \in 1..MaxFiles : toggleFile(i)
    \/ \E i \in 1..MaxFiles : removeFile(i)
    \/ clearFiles
    \/ \E p \in PdfPaths : PdfDetected(p)
    \/ \E ps \in DropPayloads : DragDrop(ps)
    \/ \E ps \in DialogPayloads : openFileDialog(ps)
    \/ \E t \in 1..MaxAdds, o \in {"some", "none", "fail"} : EmbeddedRead(t, o)

SpecStore == Init /\ [][NextStore]_vars

\* A compare run and a guideline run, one after the other or overlapping, on a.pdf
\* of the history and b.pdf detected in the watched folder.
NextGuide ==
    \/ \E h \in {<<>>, <<HistoryEntry("/in/a.pdf")>>} : InitSettings(h)
    \/ InitStartupFile("")
    \/ \E i \in 1..MaxFiles : toggleFile(i)
    \/ PdfDetected("/in/b.pdf")
    \/ nextRun < MaxOverlap /\ ClickCompare
    \/ nextRun < MaxOverlap /\ ClickGuidelines
    \/ \E r \in runs : LogListened(r)
    \/ \E r \in runs : ProgressListened(r)
    \/ \E r \in runs, res \in {<<>>, RespAB} : AnalyzeResolved(r, res)
    \/ \E r \in runs, e \in ErrorTexts : AnalyzeRejected(r, e)
    \/ \E r \in runs, ok \in BOOLEAN : GuidelinesSettled(r, ok)

SpecGuide == Init /\ [][NextGuide]_vars

\* Analysis runs, one after the other, in a window where listen() may reject.
NextListen ==
    \/ InitSettings(<<>>)
    \/ InitStartupFile("")
    \/ \E p \in PdfPaths : PdfDetected(p)
    \/ \E i \in 1..MaxFiles : toggleFile(i)
    \/ (nextRun < MaxOverlap /\ runs = {}) /\ ClickAnalyze
    \/ (nextRun < MaxOverlap /\ runs = {}) /\ ClickCompare
    \/ \E r \in runs : LogListened(r)
    \/ \E r \in runs, e \in ErrorTexts : LogListenFailed(r, e)
    \/ \E r \in runs : ProgressListened(r)
    \/ \E r \in runs, e \in ErrorTexts : ProgressListenFailed(r, e)
    \/ \E r \in runs : AnalyzeResolved(r, RespAB)
    \/ \E r \in runs, e \in ErrorTexts : AnalyzeRejected(r, e)

SpecListen == Init /\ [][NextListen]_vars

\* Individual runs, one after the other, on two files called a.pdf in two folders.
NextNames ==
    \/ InitSettings(<<>>)
    \/ InitStartupFile("")
    \/ \E p \in {"/in/a.pdf", TwinPath} : PdfDetected(p)
    \/ \E i \in 1..MaxFiles : toggleFile(i)
    \/ (nextRun < MaxOverlap /\ runs = {}) /\ ClickAnalyze
    \/ \E r \in runs : LogListened(r)
    \/ \E r \in runs : ProgressListened(r)
    \/ \E r \in runs, res \in {RespAB, RespAEmpty} : AnalyzeResolved(r, res)
    \/ \E r \in runs, e \in ErrorTexts : AnalyzeRejected(r, e)
    \/ \E c \in BOOLEAN : ProgressEvent(<<"a.pdf">>, c)

SpecNames == Init /\ [][NextNames]_vars

----------------------------------------------------------------------------
(* The folder-watch window *)

\* The DOMContentLoaded handler registers the click listeners; the stop button is
\* disabled or not, as the page has it.
WatchLoaded(stopDisabled) ==
    /\ ~watch.loaded
    /\ watch' = [watch EXCEPT !.loaded = TRUE, !.stopDisabled = stopDisabled,
                              !.last = "loaded"]
    /\ UNCHANGED <<window, unit>>

\* updateWatchUI
updateWatchUI(w) ==
    [w EXCEPT !.startDisabled = w.isWatching, !.stopDisabled = ~w.isWatching]

\* A backend call in flight.
WatchCall(op, id) == [op |-> op, id |-> id]

FolderPaths == {<<>>, <<SP>>, <<"/in">>}

\* Click on start-btn: startWatching up to await invoke("start_watching"), or to
\* the alert when the folder field is blank.
ClickStart(folderPath) ==
    /\ watch.loaded
    /\ ~watch.startDisabled
    /\ watch.nextCall < MaxWatchCalls
    /\ watch' = IF Trim(folderPath) = <<>>
                THEN [watch EXCEPT !.last = "alert"]
                ELSE [watch EXCEPT !.nextCall = @ + 1,
                                   !.calls = @ \cup {WatchCall("start", watch.nextCall + 1)},
                                   !.last = "start"]
    /\ UNCHANGED <<window, unit>>

\* start_watching returns for call c: the rest of the try block, or the catch.
\* The timer set by setInterval is named after the call.
StartReturned(c, ok) ==
    /\ c \in watch.calls
    /\ c.op = "start"
    /\ watch' = IF ok
                THEN [updateWatchUI([watch EXCEPT !.isWatching = TRUE])
                        EXCEPT !.pollInterval = c.id,
                               !.timers = @ \cup {c.id},
                               !.calls = @ \ {c},
                               !.last = "started"]
                ELSE [watch EXCEPT !.calls = @ \ {c}, !.last = "startFailed"]
    /\ UNCHANGED <<window, unit>>

\* Click on stop-btn: stopWatching up to await invoke("stop_watching").
ClickStop ==
    /\ watch.loaded
    /\ ~watch.stopDisabled
    /\ watch.nextCall < MaxWatchCalls
    /\ watch' = [watch EXCEPT !.nextCall = @ + 1,
                              !.calls = @ \cup {WatchCall("stop", watch.nextCall + 1)},
                              !.last = "stop"]
    /\ UNCHANGED <<window, unit>>

\* stop_watching returns for call c: the rest of the try block, or the catch.
StopReturned(c, ok) ==
    /\ c \in watch.calls
    /\ c.op = "stop"
    /\ watch' = IF ok
                THEN [updateWatchUI([watch EXCEPT !.isWatching = FALSE])
                        EXCEPT !.pollInterval = NULL,
                               !.timers = @ \ {watch.pollInterval},
                               !.calls = @ \ {c},
                               !.last = "stopped"]
                ELSE [watch EXCEPT !.calls = @ \ {c}, !.last = "stopFailed"]
    /\ UNCHANGED <<window, unit>>

NextWatch ==
    \/ \E d \in BOOLEAN : WatchLoaded(d)
    \/ \E f \in FolderPaths : ClickStart(f)
    \/ \E c \in watch.calls, ok \in BOOLEAN : StartReturned(c, ok)
    \/ ClickStop
    \/ \E c \in watch.calls, ok \in BOOLEAN : StopReturned(c, ok)

SpecWatch == Init /\ [][NextWatch]_vars

----------------------------------------------------------------------------
(* Unit tests: the exported functions called on their own *)

\* The lines a test joins into a response: an empty line, a blank line, marker
\* lines (a name, a name followed by a space, no name), a separator line and a line
\* of text.
Lines == {<<>>, <<SP>>, <<MARK, "a.pdf">>, <<MARK, "b.pdf", SP>>, <<MARK, "__proto__">>,
          <<MARK>>, <<DASH3>>, <<"OK">>}

\* [...].join("\n")
RECURSIVE JoinLines(_)
JoinLines(ls) ==
    IF Len(ls) = 0 THEN <<>>
    ELSE IF Len(ls) = 1 THEN ls[1]
    ELSE ls[1] \o <<NL>> \o JoinLines(Tail(ls))

\* The arrays of lines a test joins into the input of the parser.
ParserInputs == UNION {[1..n -> Lines] : n \in 0..MaxLines}

\* File names and contents of sections: names without surrounding white space,
\* contents trimmed, not empty and with no line that begins with the marker.
WireNames == {<<"a.pdf">>, <<"b.pdf">>, <<"my", SP, "a.pdf">>, ProtoKey}
WireContents == {<<"OK">>, <<DASH3>>, <<DASH3, NL, "OK">>, <<"OK", NL, NL, "NG">>,
                 <<"x", MARK, "y">>}

\* Sequences of (name, content) with distinct names.
WireInputs ==
    {ps \in UNION {[1..n -> [name : WireNames, content : WireContents]] : n \in 0..MaxPairs} :
        \A i, j \in 1..Len(ps) : ps[i].name = ps[j].name => i = j}

\* The individual-mode response: the blocks "\n## (page) <name>\n---\n<content>\n".
RECURSIVE Wire(_)
Wire(ps) ==
    IF ps = <<>> THEN <<>>
    ELSE <<NL, MARK>> \o Head(ps).name \o <<NL, DASH3, NL>> \o Head(ps).content \o <<NL>>
         \o Wire(Tail(ps))

ButtonInputs ==
    [hasFiles : BOOLEAN, hasChecked : BOOLEAN, hasResultsSelected : BOOLEAN,
     busy : BOOLEAN, hasCustomInstruction : BOOLEAN]

\* A call that has not been made yet.
UnitCall(fn, arg) == [fn |-> fn, arg |-> arg, done |-> FALSE, ret |-> <<>>]


InitUnit ==
    /\ phase = "settings"
    /\ pdfFiles = <<>>
    /\ logUnlisten = NULL
    /\ listeners = {}
    /\ runs = {}
    /\ nextRun = 0
    /\ adds = <<>>
    /\ startupTimer = FALSE
    /\ btn = InitialButtons
    /\ customInstruction = <<>>
    /\ clock = ClockStart
    /\ ev = Plain("init")
    /\ watch = WatchInit
    /\ \/ \E a \in ButtonInputs : unit = UnitCall("updateButtonsState", a)
       \/ \E t \in ParserInputs : unit = UnitCall("parseIndividualResults", t)
       \/ \E ps \in WireInputs : unit = UnitCall("parseWire", ps)

\* A test calls updateButtonsState({ hasFiles, ... }).
TestUpdateButtonsState ==
    /\ unit.fn = "updateButtonsState"
    /\ ~unit.done
    /\ unit' = [unit EXCEPT !.done = TRUE,
                            !.ret = updateButtonsState(unit.arg.hasFiles,
                                                       unit.arg.hasChecked,
                                                       unit.arg.hasResultsSelected,
                                                       unit.arg.busy,
                                                       unit.arg.hasCustomInstruction)]
    /\ UNCHANGED <<window, watch>>

\* A test calls parseIndividualResults([...].join("\n")).
TestParseIndividualResults ==
    /\ unit.fn = "parseIndividualResults"
    /\ ~unit.done
    /\ unit' = [unit EXCEPT !.done = TRUE,
                            !.ret = parseIndividualResults(JoinLines(unit.arg))]
    /\ UNCHANGED <<window, watch>>

\* parseIndividualResults is called with a response in the wire format.
TestParseWire ==
    /\ unit.fn = "parseWire"
    /\ ~unit.done
    /\ unit' = [unit EXCEPT !.done = TRUE, !.ret = parseIndividualResults(Wire(unit.arg))]
    /\ UNCHANGED <<window, watch>>

NextUnit ==
    \/ TestUpdateButtonsState
    \/ TestParseIndividualResults
    \/ TestParseWire

SpecUnit == InitUnit /\ [][NextUnit]_vars


----------------------------------------------------------------------------
(* Properties *)

Range(seq) == {seq[i] : i \in DOMAIN seq}
RunIds(rs) == {r.id : r \in rs}
AnalysisKinds == {"individual", "compare"}
PathB == "/in/b.pdf"

\* The step is the completion of an analysis request of the given kind.
Completes(kind, mode) == ev'.kind = kind /\ ev'.mode = mode

\* C1: once no analysis run is in flight any more, no tracked file is marked
\* analyzing, whatever progress notifications were delivered during the run.
C1_NoAnalyzingAfterRun ==
    (nextRun > 0 /\ runs = {}) => \A i \in 1..Len(pdfFiles) : ~pdfFiles[i].analyzing

\* C2: when a run that was the only one in flight from entry to exit leaves
\* (request resolved or rejected), no listener it registered stays registered and
\* logUnlisten is null; and a listener is only ever registered for a run in flight,
\* so none of its callbacks can be called afterwards.
C2_SubscriptionsReleased ==
    [][ /\ \A r \in runs :
              (r.alone /\ r.id \notin RunIds(runs'))
                  => /\ \A l \in listeners' : l[1] # r.id
                     /\ logUnlisten' = NULL
        /\ \A l \in listeners' \ listeners : l[1] \in RunIds(runs) ]_vars

\* C2 witness: the only run started so far has left after its request, and nothing
\* is registered any more.
C2_Witness ==
    /\ nextRun = 1
    /\ runs = {}
    /\ ev.kind \in {"resolved", "rejected"}
    /\ ev.run = 1
    /\ listeners = {}
    /\ logUnlisten = NULL

\* C3: with runs begun from the analyze, compare and guidelines buttons only, each
\* at a moment its button is enabled, at most one run is in flight.
C3_AtMostOneRun == Cardinality(runs) <= 1

\* C4: the tracked list never holds two records with the same path.
C4_UniquePaths ==
    \A i, j \in 1..Len(pdfFiles) : pdfFiles[i].path = pdfFiles[j].path => i = j

C7_IndividualApplied ==
    [][ Completes("resolved", "individual") =>
          LET m == parseIndividualResults(ev'.text)
          IN  \A p \in Range(ev'.paths) :
                  LET k == FindByPath(pdfFiles', p)
                  IN  (k # 0 /\ pdfFiles'[k].name \in DOMAIN m) =>
                        /\ pdfFiles'[k].result = m[pdfFiles'[k].name]
                        /\ ~pdfFiles'[k].resultError
                        /\ pdfFiles'[k].analyzedAt = clock
                        /\ pdfFiles'[k].embedded ]_vars

\* C8: when an individual request resolves, a record whose name is not a key of
\* the parser's mapping is left exactly as it was (no field changes, no error is
\* recorded on it), and the list keeps its length.
C8_MissingSectionKeepsRecord ==
    [][ Completes("resolved", "individual") =>
          LET m == parseIndividualResults(ev'.text)
          IN  /\ Len(pdfFiles') = Len(pdfFiles)
              /\ \A i \in 1..Len(pdfFiles) :
                    pdfFiles[i].name \notin DOMAIN m => pdfFiles'[i] = pdfFiles[i] ]_vars

\* C8 witness: a request for a.pdf and b.pdf resolved with a response that has a
\* section for a.pdf only; b.pdf, checked, still has no result.
C8_Witness ==
    /\ ev.kind = "resolved"
    /\ ev.mode = "individual"
    /\ ev.text = RespAEmpty
    /\ PathB \in Range(ev.paths)
    /\ \E i \in 1..Len(pdfFiles) :
          /\ pdfFiles[i].path = PathB
          /\ pdfFiles[i].checked
          /\ pdfFiles[i].result = UNDEF
          /\ ~pdfFiles[i].resultError

\* C9: when an individual request resolves with sections for a.pdf and b.pdf while
\* no file named b.pdf is tracked, the mapping has both names, no record is created
\* (for b.pdf or otherwise), only records named a.pdf change, and no record gets an
\* error recorded.
C9_UntrackedSectionDiscarded ==
    [][ (Completes("resolved", "individual") /\ ev'.text = RespAB
         /\ FindByName(pdfFiles, <<"b.pdf">>) = 0) =>
          /\ DOMAIN parseIndividualResults(ev'.text) = {<<"a.pdf">>, <<"b.pdf">>}
          /\ Len(pdfFiles') = Len(pdfFiles)
          /\ FindByName(pdfFiles', <<"b.pdf">>) = 0
          /\ \A i \in 1..Len(pdfFiles) :
                /\ pdfFiles'[i].name = pdfFiles[i].name
                /\ pdfFiles'[i].path = pdfFiles[i].path
                /\ pdfFiles'[i] # pdfFiles[i] => pdfFiles[i].name = <<"a.pdf">>
                /\ pdfFiles'[i].resultError => pdfFiles[i].resultError ]_vars

\* C9 witness: only a.pdf is tracked, the response had sections for a.pdf and
\* b.pdf, and a.pdf holds the content of its section.
C9_Witness ==
    /\ ev.kind = "resolved"
    /\ ev.mode = "individual"
    /\ ev.text = RespAB
    /\ Len(pdfFiles) = 1
    /\ pdfFiles[1].name = <<"a.pdf">>
    /\ pdfFiles[1].result = <<"OK">>
    /\ ~pdfFiles[1].resultError

\* C10: while an analysis run is in flight the analyze and compare buttons are
\* disabled.
C10_ButtonsDisabledWhileRunning ==
    (\E r \in runs : r.kind \in AnalysisKinds)
        => (btn.analyzeDisabled /\ btn.compareDisabled)


----------------------------------------------------------------------------

IsChecked(f) == f.checked

\* The paths of the checked records of list, in list order.
CheckedPaths(list) ==
    LET sel == SelectSeq(list, IsChecked) IN [i \in 1..Len(sel) |-> sel[i].path]

\* t is s without its leading and trailing whitespace.
IsTrimOf(t, s) ==
    /\ t = <<>> \/ (~IsSpace(t[1]) /\ ~IsSpace(t[Len(t)]))
    /\ \E a, b \in 0..Len(s) :
          /\ a + b <= Len(s)
          /\ t = SubSeq(s, a + 1, Len(s) - b)
          /\ \A i \in 1..Len(s) : (i <= a \/ i > Len(s) - b) => IsSpace(s[i])

Named(list, name) == {i \in 1..Len(list) : list[i].name = name}

\* C12: when a progress notification (fileName, completed) is received during a
\* run, the first tracked record named fileName gets analyzing = ~completed and
\* nothing else changes in any record; when no record is named fileName, every
\* record is unchanged.
C12_ProgressSetsAnalyzing ==
    [][ ev'.kind = "progress" =>
          LET M == Named(pdfFiles, ev'.text)
              completed == ev'.mode = "completed"
          IN  /\ Len(pdfFiles') = Len(pdfFiles)
              /\ M = {} => pdfFiles' = pdfFiles
              /\ M # {} =>
                    LET k == CHOOSE i \in M : \A j \in M : i <= j
                    IN  /\ pdfFiles'[k] = [pdfFiles[k] EXCEPT !.analyzing = ~completed]
                        /\ \A i \in 1..Len(pdfFiles) : i # k => pdfFiles'[i] = pdfFiles[i] ]_vars

\* C12 witness: a.pdf was being analyzed and b.pdf was not; the notification
\* (a.pdf, completed) has just been received, and a.pdf is no longer analyzing while
\* its result of the history is still there.
C12_Witness ==
    /\ ev.kind = "progress"
    /\ ev.mode = "completed"
    /\ ev.text = <<"a.pdf">>
    /\ Len(pdfFiles) = 2
    /\ pdfFiles[1].name = <<"a.pdf">>
    /\ pdfFiles[2].name = <<"b.pdf">>
    /\ ~pdfFiles[1].analyzing
    /\ pdfFiles[1].result = HistorySummary
    /\ pdfFiles[2].analyzing

----------------------------------------------------------------------------

\* The call of fn has returned.
Returned(fn) == unit.fn = fn /\ unit.done

\* C13: for each of the 32 combinations of the five booleans, updateButtonsState
\* returns the eight decisions of the table and nothing else.
C13_ButtonTable ==
    Returned("updateButtonsState") =>
        LET a == unit.arg
            r == unit.ret
        IN  /\ DOMAIN r = {"analyzeDisabled", "compareDisabled", "clearDisabled",
                           "selectAllDisabled", "selectNoneDisabled",
                           "guidelinesDisabled", "customInstructionDisabled",
                           "copyInstructionDisabled"}
            /\ r.analyzeDisabled <=> (a.busy \/ ~a.hasChecked)
            /\ r.customInstructionDisabled <=> (a.busy \/ ~a.hasChecked)
            /\ r.compareDisabled <=> (a.busy \/ ~a.hasChecked \/ a.hasResultsSelected)
            /\ r.clearDisabled <=> (a.busy \/ ~a.hasFiles)
            /\ r.selectAllDisabled <=> ~a.hasFiles
            /\ r.selectNoneDisabled <=> ~a.hasFiles
            /\ r.guidelinesDisabled <=> (a.busy \/ ~a.hasResultsSelected)
            /\ r.copyInstructionDisabled <=>
                  (a.busy \/ ~a.hasResultsSelected \/ ~a.hasCustomInstruction)

\* C13 witness: with files, a checked file that has a result, an instruction and
\* nothing busy, analyze is enabled and compare is disabled.
C13_Witness ==
    /\ Returned("updateButtonsState")
    /\ unit.arg = [hasFiles |-> TRUE, hasChecked |-> TRUE, hasResultsSelected |-> TRUE,
                   busy |-> FALSE, hasCustomInstruction |-> TRUE]
    /\ ~unit.ret.analyzeDisabled
    /\ unit.ret.compareDisabled
    /\ ~unit.ret.copyInstructionDisabled

\* C14: when a compare request over a non-empty checked set resolves and the
\* checked set is still the one the run was started with, the buttons derived from
\* the list right after have compare disabled, whatever the response was.
C14_CompareDisabledAfterCompare ==
    [][ (/\ Completes("resolved", "compare")
         /\ ev'.paths # <<>>
         /\ CheckedPaths(pdfFiles) = ev'.paths
         /\ CheckedPaths(pdfFiles') = ev'.paths) =>
           /\ btn' = updateButtons(pdfFiles', customInstruction')
           /\ btn'.compareDisabled ]_vars

----------------------------------------------------------------------------
(* The lines of a parser input *)

IsMarkerLine(l) == Len(l) >= 1 /\ l[1] = MARK

\* The name on a marker line: the text after the marker, without the whitespace
\* around it.
LineName(l) == Trim(Tail(l))

\* The indices of the marker lines of ls.
Markers(ls) == {i \in 1..Len(ls) : IsMarkerLine(ls[i])}

\* The last line of the section that starts at marker line i.
SectionEnd(ls, i) ==
    IF \E j \in Markers(ls) : j > i
    THEN (CHOOSE j \in Markers(ls) : j > i /\ \A k \in Markers(ls) : k > i => j <= k) - 1
    ELSE Len(ls)

\* ls is made of sections only: a marker line with a name, a --- line and at least
\* one content line; the names are distinct; only empty lines come before the
\* first marker line.
WellFormed(ls) ==
    /\ Markers(ls) # {}
    /\ \A i \in 1..Len(ls) : (\A j \in Markers(ls) : i < j) => ls[i] = <<>>
    /\ \A i \in Markers(ls) :
          /\ LineName(ls[i]) # <<>>
          /\ i + 2 <= SectionEnd(ls, i)
          /\ ls[i + 1] = <<DASH3>>
    /\ \A i, j \in Markers(ls) : LineName(ls[i]) = LineName(ls[j]) => i = j

\* C15: for an input made of sections (marker line with a name, --- line, content
\* lines) with distinct non-empty names, the mapping has exactly the section names
\* as keys, and the value of each is its section's content lines without the
\* whitespace around them; the first marker may be at the start of the input or
\* after a newline.
C15_SectionsParsed ==
    (Returned("parseIndividualResults") /\ WellFormed(unit.arg)) =>
        LET ls == unit.arg
        IN  /\ DOMAIN unit.ret = {LineName(ls[i]) : i \in Markers(ls)}
            /\ \A i \in Markers(ls) :
                  IsTrimOf(unit.ret[LineName(ls[i])],
                           JoinLines(SubSeq(ls, i + 2, SectionEnd(ls, i))))

\* C15 witness: two sections, the first marker at the very start of the input;
\* both names are keys and both values are "OK".
C15_Witness ==
    /\ Returned("parseIndividualResults")
    /\ unit.arg = << <<MARK, "a.pdf">>, <<DASH3>>, <<"OK">>,
                     <<MARK, "b.pdf", SP>>, <<DASH3>>, <<"OK">> >>
    /\ WellFormed(unit.arg)
    /\ DOMAIN unit.ret = {<<"a.pdf">>, <<"b.pdf">>}
    /\ unit.ret[<<"a.pdf">>] = <<"OK">>
    /\ unit.ret[<<"b.pdf">>] = <<"OK">>

\* A line with nothing but whitespace on it.
IsBlankLine(l) == \A i \in 1..Len(l) : IsSpace(l[i])

\* C16: for an input that is empty or has only whitespace and newlines in it, the
\* mapping is empty.
C16_BlankInputEmptyMapping ==
    (Returned("parseIndividualResults")
     /\ \A i \in 1..Len(unit.arg) : IsBlankLine(unit.arg[i])) =>
        DOMAIN unit.ret = {}

\* C16 witness: the input "\n \n" has been parsed into the empty mapping.
C16_Witness ==
    /\ Returned("parseIndividualResults")
    /\ unit.arg = << <<>>, <<SP>>, <<>> >>
    /\ JoinLines(unit.arg) = <<NL, SP, NL>>
    /\ DOMAIN unit.ret = {}

\* The marker lines of ls that carry the name n.
MarkersOf(ls, n) == {i \in Markers(ls) : LineName(ls[i]) = n}

\* The lines of the section that starts at marker line i.
SectionLines(ls, i) == SubSeq(ls, i, SectionEnd(ls, i))

\* C17: when a name is on more than one marker line, the mapping has that name as
\* a key and its value is the content of the last section of that name: the value
\* the parser gives for that section on its own.
C17_LastSectionWins ==
    Returned("parseIndividualResults") =>
        \A i \in Markers(unit.arg) :
            LET n == LineName(unit.arg[i])
                M == MarkersOf(unit.arg, n)
            IN  (n # <<>> /\ Cardinality(M) >= 2 /\ \A j \in M : j <= i) =>
                    /\ n \in DOMAIN unit.ret
                    /\ unit.ret[n] =
                          parseIndividualResults(JoinLines(SectionLines(unit.arg, i)))[n]

\* C17 witness: a.pdf has the sections "OK" and "OK\nOK"; the mapping has the
\* second one.
C17_Witness ==
    /\ Returned("parseIndividualResults")
    /\ unit.arg = << <<MARK, "a.pdf">>, <<"OK">>,
                     <<MARK, "a.pdf">>, <<"OK">>, <<"OK">> >>
    /\ DOMAIN unit.ret = {<<"a.pdf">>}
    /\ unit.ret[<<"a.pdf">>] = <<"OK", NL, "OK">>

\* C18: for every section (the last one of its name), when the line after the name
\* line is ---, the mapped content is what follows that line, without surrounding
\* whitespace, whether or not anything follows it, and a second --- line stays;
\* when the line after the name line is not ---, nothing is removed.
C18_OneSeparatorRemoved ==
    Returned("parseIndividualResults") =>
        \A i \in Markers(unit.arg) :
            LET ls == unit.arg
                n == LineName(ls[i])
                e == SectionEnd(ls, i)
            IN  (n # <<>> /\ \A j \in MarkersOf(ls, n) : j <= i) =>
                    /\ n \in DOMAIN unit.ret
                    /\ IsTrimOf(unit.ret[n],
                                IF i + 1 <= e /\ ls[i + 1] = <<DASH3>>
                                THEN JoinLines(SubSeq(ls, i + 2, e))
                                ELSE JoinLines(SubSeq(ls, i + 1, e)))

\* C19: every key of the mapping is the non-empty name of a marker line of the
\* input (the text after the marker, without surrounding whitespace); so text
\* before the first marker gives no key, and neither does a marker without a name.
C19_KeysAreMarkerNames ==
    Returned("parseIndividualResults") =>
        \A k \in DOMAIN unit.ret :
            /\ k # <<>>
            /\ \E i \in Markers(unit.arg) : LineName(unit.arg[i]) = k

----------------------------------------------------------------------------

\* A checked record that holds a result which is not an error.
HasGoodResult(f) == f.checked /\ f.result # UNDEF /\ ~f.resultError

\* The paths of the checked records of list with a non-error result, in list order.
ResultPaths(list) ==
    LET sel == SelectSeq(list, HasGoodResult) IN [i \in 1..Len(sel) |-> sel[i].path]

\* C20: a guideline run takes the paths of exactly the records that are checked
\* and hold a non-error result at its entry, in list order; it issues its request
\* once, with those paths, and leaves only after it.  With no such record it warns
\* and registers nothing, requests nothing and starts no run.
C20_GuidelineRequest ==
    [][ /\ (ev'.kind = "enter" /\ ev'.mode = "guidelines") =>
              \E r \in runs' :
                    /\ r.id = ev'.run
                    /\ r.id \notin RunIds(runs)
                    /\ r.kind = "guidelines"
                    /\ r.pc # "invoke"
                    /\ r.checkedFiles = ResultPaths(pdfFiles)
                    /\ r.checkedFiles # <<>>
        /\ (ev'.kind = "request" /\ ev'.mode = "guidelines") =>
              \E r \in runs :
                    /\ r.id = ev'.run
                    /\ r.pc # "invoke"
                    /\ runs' = (runs \ {r}) \cup {[r EXCEPT !.pc = "invoke"]}
                    /\ ev'.paths = r.checkedFiles
        /\ \A r \in runs : r.kind = "guidelines" =>
              /\ r.id \notin RunIds(runs') => r.pc = "invoke"
              /\ \A q \in runs' :
                    (q.id = r.id /\ r.pc # "invoke" /\ q.pc = "invoke")
                        => (ev'.kind = "request" /\ ev'.run = r.id)
        /\ ev'.kind = "warning" =>
              /\ ResultPaths(pdfFiles) = <<>>
              /\ UNCHANGED <<pdfFiles, listeners, logUnlisten, runs, nextRun, btn>> ]_vars

----------------------------------------------------------------------------

\* C21: no step of a guideline run (its entry, its request, and the completion of
\* the request, successful or failed) changes the tracked list: no record is
\* added or removed and every record keeps all its fields.
C21_GuidelinesKeepRecords ==
    [][ ev'.mode = "guidelines" => pdfFiles' = pdfFiles ]_vars

\* C21 witness: the request of a guideline run for a.pdf has failed; a.pdf still
\* holds the result of the history, and no error.
C21_Witness ==
    /\ ev.kind = "rejected"
    /\ ev.mode = "guidelines"
    /\ ev.paths = <<"/in/a.pdf">>
    /\ Len(pdfFiles) = 2
    /\ pdfFiles[1].path = "/in/a.pdf"
    /\ pdfFiles[1].result = HistorySummary
    /\ ~pdfFiles[1].resultError

\* C22: toggleFile, selectAll and selectNone keep the list's length and order, and
\* every record keeps all its fields but checked; selectAll leaves every record
\* checked, selectNone none, and toggleFile flips one record.
C22_OnlyCheckedChanges ==
    [][ ev'.kind \in {"toggleFile", "selectAll", "selectNone"} =>
          /\ Len(pdfFiles') = Len(pdfFiles)
          /\ \A i \in 1..Len(pdfFiles) :
                /\ [pdfFiles'[i] EXCEPT !.checked = pdfFiles[i].checked] = pdfFiles[i]
                /\ ev'.kind = "selectAll" => pdfFiles'[i].checked
                /\ ev'.kind = "selectNone" => ~pdfFiles'[i].checked
          /\ ev'.kind = "toggleFile" =>
                Cardinality({i \in 1..Len(pdfFiles) :
                                pdfFiles'[i].checked # pdfFiles[i].checked}) = 1 ]_vars

\* C22 witness: a.pdf, unchecked with the result of the history, and b.pdf, being
\* analyzed, have just been unchecked by selectNone; both still have what they had.
C22_Witness ==
    /\ ev.kind = "selectNone"
    /\ Len(pdfFiles) = 2
    /\ pdfFiles[1].result = HistorySummary
    /\ pdfFiles[1].analyzedAt = HistoryDate
    /\ pdfFiles[2].analyzing
    /\ \A i \in 1..2 : ~pdfFiles[i].checked

----------------------------------------------------------------------------

\* The analysis runs in flight.
AnalysisRuns == {r \in runs : r.kind \in AnalysisKinds}

\* C24: an analysis run that has passed the entry guard is in flight from then on
\* (a new run, with a fresh number, waiting for its first listener) and, with
\* listen() resolving and the request resolving or rejecting, it leaves in the end;
\* it leaves by one step, after its request, which is either the success path (no
\* error is recorded by it) or the failure path (no result time is written by it).
C24_RunCompletes ==
    /\ \A id \in 1..MaxOverlap :
          (id \in RunIds(AnalysisRuns)) ~> (id \notin RunIds(runs))
    /\ [][ /\ \A r \in AnalysisRuns :
                r.id \notin RunIds(runs') =>
                  /\ r.pc = "invoke"
                  /\ ev'.run = r.id
                  /\ ev'.mode = r.kind
                  /\ \/ /\ ev'.kind = "resolved"
                        /\ \A i \in 1..Len(pdfFiles) :
                              pdfFiles'[i].resultError => pdfFiles[i].resultError
                     \/ /\ ev'.kind = "rejected"
                        /\ \A i \in 1..Len(pdfFiles) :
                              pdfFiles'[i].analyzedAt = pdfFiles[i].analyzedAt
        /\ \A q \in runs' :
                q.id \notin RunIds(runs) =>
                  /\ q.id = nextRun + 1
                  /\ nextRun' = nextRun + 1
                  /\ q.pc = "listenLog" ]_vars

\* C24 witness: two analysis runs have come and gone; the first took the success
\* path and the second the failure path, so a.pdf holds the error of the second
\* and the time of the first.
C24_Witness ==
    /\ nextRun = 2
    /\ runs = {}
    /\ ev.kind = "rejected"
    /\ ev.run = 2
    /\ ev.mode \in AnalysisKinds
    /\ Len(pdfFiles) = 1
    /\ pdfFiles[1].resultError
    /\ pdfFiles[1].analyzedAt = ClockStart

\* C25: compareMode follows the origin of the result: a compare run that resolves
\* leaves it true on the records it writes; an individual run that resolves and a
\* run that fails leave it false on the records they write; and a record that
\* enters the list has it false.
C25_CompareModeFollowsResult ==
    [][ /\ Completes("resolved", "compare") =>
              \A p \in Range(ev'.paths) :
                  FindByPath(pdfFiles', p) # 0
                      => pdfFiles'[FindByPath(pdfFiles', p)].compareMode
        /\ Completes("resolved", "individual") =>
              \A i \in 1..Len(pdfFiles) :
                  pdfFiles'[i] # pdfFiles[i] => ~pdfFiles'[i].compareMode
        /\ (Completes("rejected", "individual") \/ Completes("rejected", "compare")) =>
              \A p \in Range(ev'.paths) :
                  FindByPath(pdfFiles', p) # 0
                      => ~pdfFiles'[FindByPath(pdfFiles', p)].compareMode
        /\ \A i \in 1..Len(pdfFiles') : i > Len(pdfFiles) => ~pdfFiles'[i].compareMode ]_vars

\* The step is the failure of an analysis run whose checked set has path p.
FailsFor(p) ==
    /\ Completes("rejected", "individual") \/ Completes("rejected", "compare")
    /\ p \in Range(ev'.paths)

C27_NoClearDuringRun ==
    [][ (\E r \in runs : r.kind \in AnalysisKinds) =>
            /\ ev'.kind # "clearFiles"
            /\ Len(pdfFiles') >= Len(pdfFiles) - 1 ]_vars

\* C28: the history load leaves the records it finds as they are and appends
\* unchecked records: one for each path of the history that was not tracked and
\* no other, made from the first entry of that path (summary as result, no
\* error, the entry's analyzed_at and document_type), which a later entry of
\* the same path does not change.
C28_HistoryLoad ==
    [][ ev'.kind = "history" =>
          LET h == ev'.history
              old == Len(pdfFiles)
          IN  /\ Len(pdfFiles') >= old
              /\ \A i \in 1..old : pdfFiles'[i] = pdfFiles[i]
              /\ \A i \in (old + 1)..Len(pdfFiles') :
                    \E k \in 1..Len(h) :
                        /\ h[k].file_path = pdfFiles'[i].path
                        /\ \A j \in 1..(k - 1) : h[j].file_path # h[k].file_path
                        /\ FindByPath(pdfFiles, h[k].file_path) = 0
                        /\ ~pdfFiles'[i].checked
                        /\ pdfFiles'[i].result = h[k].summary
                        /\ ~pdfFiles'[i].resultError
                        /\ pdfFiles'[i].analyzedAt = h[k].analyzed_at
                        /\ pdfFiles'[i].documentType = h[k].document_type
              /\ \A k \in 1..Len(h) :
                    FindByPath(pdfFiles, h[k].file_path) = 0 =>
                        Cardinality({i \in 1..Len(pdfFiles') :
                                        pdfFiles'[i].path = h[k].file_path}) = 1 ]_vars

\* C28 witness: the history held a.pdf twice, with two summaries; a.pdf is
\* tracked once, unchecked, with the summary of the first entry.
C28_Witness ==
    /\ ev.kind = "history"
    /\ ev.history = <<HistoryEntry("/in/a.pdf"), OlderEntry("/in/a.pdf")>>
    /\ Len(pdfFiles) = 1
    /\ pdfFiles[1].path = "/in/a.pdf"
    /\ ~pdfFiles[1].checked
    /\ pdfFiles[1].result = HistorySummary
    /\ pdfFiles[1].documentType = HistoryType

\* C29: when read_pdf_result answers for a dropped or chosen file, the file is
\* appended to the list, checked, and the other records stay as they are; with
\* an answer [result, date] it has that result, no error, analyzedAt = date and
\* embedded = true; with no answer or a failure it has no result, no error, no
\* date, and is not marked embedded.
C29_EmbeddedReadDecides ==
    [][ ev'.kind = "embedded" =>
          LET n == Len(pdfFiles')
          IN  /\ n = Len(pdfFiles) + 1
              /\ SubSeq(pdfFiles', 1, n - 1) = pdfFiles
              /\ pdfFiles'[n].path = ev'.paths[1]
              /\ pdfFiles'[n].checked
              /\ ~pdfFiles'[n].resultError
              /\ IF ev'.mode = "some"
                 THEN /\ pdfFiles'[n].result = EmbeddedResult
                      /\ pdfFiles'[n].analyzedAt = EmbeddedDate
                      /\ pdfFiles'[n].embedded
                 ELSE /\ pdfFiles'[n].result = UNDEF
                      /\ pdfFiles'[n].analyzedAt = NoTime
                      /\ ~pdfFiles'[n].embedded ]_vars

\* C29 witness: the read has failed for b.pdf, added after a.pdf, which came with
\* an embedded result; b.pdf is tracked, checked, with no result and no error.
C29_Witness ==
    /\ ev.kind = "embedded"
    /\ ev.mode = "fail"
    /\ Len(pdfFiles) = 2
    /\ pdfFiles[1].embedded
    /\ pdfFiles[1].result = EmbeddedResult
    /\ pdfFiles[2].path = "/in/b.pdf"
    /\ pdfFiles[2].checked
    /\ pdfFiles[2].result = UNDEF
    /\ ~pdfFiles[2].resultError

\* C30: also when runs overlap, a run's log subscription is closed by no step but
\* the run's own exit, and once the last run in flight has exited no log or
\* progress subscription is open.
C30_OverlapSubscriptions ==
    [][ /\ \A r \in runs :
              (<<r.id, LOG>> \in listeners /\ <<r.id, LOG>> \notin listeners')
                  => r.id \notin RunIds(runs')
        /\ (runs # {} /\ runs' = {}) => listeners' = {} ]_vars

\* C31: when listen("log") or listen("analysis-progress") rejects at the entry of
\* an analysis run, the records of the run's checked set hold the error with the
\* error flag, no listener of the run stays registered, and the buttons are those
\* derived from the list.
C31_ListenFailureIsRunFailure ==
    [][ ev'.kind \in {"logFailed", "progressFailed"} =>
          /\ \A q \in Range(ev'.paths) :
                FindByPath(pdfFiles', q) # 0 =>
                    /\ pdfFiles'[FindByPath(pdfFiles', q)].resultError
                    /\ pdfFiles'[FindByPath(pdfFiles', q)].result = ev'.text
          /\ \A l \in listeners' : l[1] # ev'.run
          /\ btn' = updateButtons(pdfFiles', customInstruction) ]_vars

\* The step is the completion of an analysis run.
AnalysisCompletes == ev'.kind \in {"resolved", "rejected"} /\ ev'.mode \in AnalysisKinds

C33_RunKeepsListShape ==
    [][ (runs' # runs \/ ev'.kind = "progress") =>
          /\ Len(pdfFiles') = Len(pdfFiles)
          /\ \A i \in 1..Len(pdfFiles) :
                /\ pdfFiles'[i].checked = pdfFiles[i].checked
                /\ pdfFiles'[i].path = pdfFiles[i].path
                /\ pdfFiles'[i].name = pdfFiles[i].name ]_vars

\* C33 witness: a.pdf, the only file of the run's checked set, was removed during
\* the run; the request has failed and a.pdf is not tracked.
C33_Witness ==
    /\ ev.kind = "rejected"
    /\ ev.mode = "individual"
    /\ ev.paths = <<"/in/a.pdf">>
    /\ FindByPath(pdfFiles, "/in/a.pdf") = 0
    /\ Len(pdfFiles) = 1
    /\ pdfFiles[1].path = PathB

C35_WireRoundTrip ==
    Returned("parseWire") =>
        /\ DOMAIN unit.ret = {unit.arg[i].name : i \in 1..Len(unit.arg)}
        /\ \A i \in 1..Len(unit.arg) :
              unit.arg[i].name \in DOMAIN unit.ret =>
                  unit.ret[unit.arg[i].name] = unit.arg[i].content

\* C36: in the folder-watch window a poll timer is running exactly when
\* isWatching is true, never more than one, and none right after stop_watching
\* has succeeded, whatever the order in which the calls were made and returned.
C36_OneTimerIffWatching ==
    /\ (watch.timers # {}) <=> watch.isWatching
    /\ Cardinality(watch.timers) <= 1
    /\ watch.last = "stopped" => watch.timers = {}

====
